---------------------------- MODULE Spec2Model ----------------------------
(***************************************************************************)
(* A model of the RTTM record handling of playing-with-voices:             *)
(*   src/code/forced_alignment.py  list_to_rttm_string, merge_close_numbers,*)
(*                                 convert_csv_to_rttm                      *)
(*   src/code/evaluation.py        parse_rttm_file, calculate_overlap_      *)
(*                                 duration, calculate_filler_word_amount,  *)
(*                                 the batch drivers                        *)
(*                                                                         *)
(* Times are integers counting centiseconds (0.01 s), the resolution of    *)
(* the RTTM format's "{:.2f}" fields.  A Python str is a sequence of       *)
(* one-character strings, so that formatting and splitting are computed.   *)
(* A Python list [start_time, end_time, speaker] is a tuple whose          *)
(* components 1, 2, 3 are the source's indices 0, 1, 2.                     *)
(***************************************************************************)
EXTENDS Integers, Sequences, FiniteSets, TLC

VARIABLES routine,    \* which operation of the program this run exercises
          segs,       \* the segment sequence handed to the merger and the analyzer
          threshold,  \* merge_close_numbers' threshold
          merge,      \* merge_close_numbers: position, outcome, the caller's list, the returned list
          overlap,    \* calculate_overlap_duration: position, outcome, returned pair
          filler,     \* calculate_filler_word_amount: the text, position, outcome
          codec,      \* serialize / parse / serialize again of one record
          convert,    \* convert_csv_to_rttm: the table, position, the emitted file
          batch       \* a batch driver: listing, files, loop position, result file

vars == <<routine, segs, threshold, merge, overlap, filler, codec, convert, batch>>

(***************************************************************************)
(* Bounds of the model.                                                    *)
(***************************************************************************)
MaxLen == 3        \* longest segment sequence / table
MaxTick == 3       \* times are 0, 25, ..., 25 * MaxTick centiseconds
MaxStrLen == 2     \* longest file id / speaker label / text drawn for the codec
MaxFiles == 2      \* longest directory listing of a batch run
MaxRows == 3       \* longest alignment table handed to the converter
MaxRowTick == 2    \* the table's times are 0, 25, ..., 25 * MaxRowTick centiseconds
MaxPathLen == 2    \* longest audio_path handed to the diarization driver

Times == {25 * k : k \in 0..MaxTick}
Thresholds == {25, 50}
DefaultThreshold == 50   \* threshold=0.5

Idle == [pc |-> "idle"]

(***************************************************************************)
(* Python str operations.                                                  *)
(***************************************************************************)
Digits == <<"0", "1", "2", "3", "4", "5", "6", "7", "8", "9">>
DigitChar(d) == Digits[d + 1]
IsDigit(c) == \E d \in 0..9 : Digits[d + 1] = c
DigitVal(c) == CHOOSE d \in 0..9 : Digits[d + 1] = c

RECURSIVE NatToStr(_)
NatToStr(n) == IF n < 10 THEN <<DigitChar(n)>>
               ELSE NatToStr(n \div 10) \o <<DigitChar(n % 10)>>

\* format(x, ".2f") of a value of x centiseconds
Fmt2f(x) ==
    LET a == IF x < 0 THEN -x ELSE x
    IN  (IF x < 0 THEN <<"-">> ELSE <<>>)
        \o NatToStr(a \div 100) \o <<".">>
        \o <<DigitChar((a % 100) \div 10), DigitChar(a % 10)>>

\* str.split(): the maximal runs of non-whitespace characters
RECURSIVE str_split_from(_, _, _, _)
str_split_from(s, i, cur, acc) ==
    IF i > Len(s)
    THEN (IF cur = <<>> THEN acc ELSE Append(acc, cur))
    ELSE IF s[i] = " "
         THEN str_split_from(s, i + 1, <<>>, IF cur = <<>> THEN acc ELSE Append(acc, cur))
         ELSE str_split_from(s, i + 1, Append(cur, s[i]), acc)

str_split(s) == str_split_from(s, 1, <<>>, <<>>)

\* str.split(' '): every single space separates, empty fields are kept
RECURSIVE str_split_sep_from(_, _, _, _)
str_split_sep_from(s, i, cur, acc) ==
    IF i > Len(s)
    THEN Append(acc, cur)
    ELSE IF s[i] = " "
         THEN str_split_sep_from(s, i + 1, <<>>, Append(acc, cur))
         ELSE str_split_sep_from(s, i + 1, Append(cur, s[i]), acc)

str_split_sep(s) == str_split_sep_from(s, 1, <<>>, <<>>)

RECURSIVE DigitsToNat(_)
DigitsToNat(ds) == IF ds = <<>> THEN 0
                   ELSE 10 * DigitsToNat(SubSeq(ds, 1, Len(ds) - 1)) + DigitVal(ds[Len(ds)])

\* float(tok), in centiseconds: an optional sign, digits, an optional point and
\* at most two more digits (the only shapes "{:.2f}" and the literal "1" produce);
\* anything else is a ValueError.
float(tok) ==
    LET neg  == Len(tok) > 0 /\ tok[1] = "-"
        body == IF neg THEN Tail(tok) ELSE tok
        dots == {i \in 1..Len(body) : body[i] = "."}
        dot  == IF dots = {} THEN Len(body) + 1 ELSE CHOOSE i \in dots : TRUE
        ip   == SubSeq(body, 1, dot - 1)
        fp   == SubSeq(body, dot + 1, Len(body))
        wellformed == /\ Cardinality(dots) <= 1
                      /\ Len(ip) + Len(fp) > 0
                      /\ Len(fp) <= 2
                      /\ \A i \in 1..Len(ip) : IsDigit(ip[i])
                      /\ \A i \in 1..Len(fp) : IsDigit(fp[i])
        frac == IF Len(fp) = 0 THEN 0
                ELSE IF Len(fp) = 1 THEN 10 * DigitVal(fp[1])
                ELSE 10 * DigitVal(fp[1]) + DigitVal(fp[2])
        mag  == 100 * DigitsToNat(ip) + frac
    IN  IF wellformed THEN [ok |-> TRUE, val |-> IF neg THEN -mag ELSE mag]
        ELSE [ok |-> FALSE, val |-> 0]

SP == <<" ">>
SPEAKER == <<"S", "P", "E", "A", "K", "E", "R">>
NA == <<"<", "N", "A", ">">>

(***************************************************************************)
(* RTTM codec.                                                             *)
(***************************************************************************)
\* f"SPEAKER {file_id} 1 {l[0]:.2f} {(l[1] - l[0]):.2f} <NA> <NA> {l[2]} <NA> <NA>"
list_to_rttm_string(file_id, l) ==
    SPEAKER \o SP \o file_id \o SP \o <<"1">> \o SP \o Fmt2f(l[1]) \o SP
    \o Fmt2f(l[2] - l[1]) \o SP \o NA \o SP \o NA \o SP \o l[3] \o SP \o NA \o SP \o NA

\* A local of the code that is read several times is bound once, as the only
\* element of a singleton: CHOOSE r \in {e(x) : x \in {v}} : TRUE is e(v).

\* One iteration of parse_rttm_file's loop: parts[3], parts[4], parts[7] of the
\* split line, in the order the code reads them.
parse_rttm_line(line) ==
    CHOOSE r \in
      { IF Len(parts) < 4 THEN [err |-> "IndexError"]
        ELSE IF ~float(parts[4]).ok THEN [err |-> "ValueError"]
        ELSE IF Len(parts) < 5 THEN [err |-> "IndexError"]
        ELSE IF ~float(parts[5]).ok THEN [err |-> "ValueError"]
        ELSE IF Len(parts) < 8 THEN [err |-> "IndexError"]
        ELSE [err |-> "none",
              info |-> <<float(parts[4]).val, float(parts[5]).val, parts[8]>>]
        : parts \in {str_split(line)} } : TRUE

\* parse_rttm_file on a file whose readlines() is `lines`: the list of
\* (start_time, duration, speaker_id), or the first exception raised.
parse_rttm_file(lines) ==
    CHOOSE r \in
      { LET bad == {i \in 1..Len(parsed) : parsed[i].err # "none"}
        IN  IF bad # {}
            THEN [err |-> parsed[CHOOSE i \in bad : \A j \in bad : i <= j].err,
                  speaker_info |-> <<>>]
            ELSE [err |-> "none",
                  speaker_info |-> [i \in 1..Len(parsed) |-> parsed[i].info]]
        : parsed \in {[i \in 1..Len(lines) |-> parse_rttm_line(lines[i])]} } : TRUE

(***************************************************************************)
(* Segment merger.  The records are list objects that the caller's list    *)
(* and merged_list share: `heap` holds the caller's records by position    *)
(* and merged_list holds positions of heap, so that the assignment         *)
(* merged_list[-1][1] = i[1] is seen through both.  The records of an      *)
(* input list are distinct objects.                                        *)
(***************************************************************************)
\* if i[0] - merged_list[-1][1] < threshold
close_le(i, last, th) == i[1] - last[2] <= th
close(i, last, th) == i[1] - last[2] < th

\* merged_list[-1][1] = i[1]  # Overwrite end_time
overwrite_start(heap, last, i) == [heap EXCEPT ![last][1] = i[1]]
overwrite_end(heap, last, i) == [heap EXCEPT ![last][2] = i[2]]

\* for i in l[1:]: ...
RECURSIVE merge_loop(_, _, _, _)
merge_loop(heap, merged_list, k, th) ==
    IF k > Len(heap) THEN [heap |-> heap, merged_list |-> merged_list]
    ELSE LET last == merged_list[Len(merged_list)]
         IN  IF close(heap[k], heap[last], th)
             THEN merge_loop(overwrite_end(heap, last, heap[k]), merged_list, k + 1, th)
             ELSE merge_loop(heap, Append(merged_list, k), k + 1, th)

\* merge_close_numbers(l, threshold): the outcome, the caller's list after the
\* call and the returned list; l[0] of an empty list raises IndexError.
merge_close_numbers(l, th) ==
    IF l = <<>>
    THEN [err |-> "IndexError", l |-> l, out |-> <<>>]
    ELSE LET r == merge_loop(l, <<1>>, 2, th)
         IN  [err |-> "none", l |-> r.heap,
              out |-> [j \in 1..Len(r.merged_list) |-> r.heap[r.merged_list[j]]]]

(***************************************************************************)
(* Overlap analyzer.  A ratio is kept exact as <<numerator, denominator>>. *)
(***************************************************************************)
Max(a, b) == IF a >= b THEN a ELSE b
Min(a, b) == IF a <= b THEN a ELSE b

\* if overlap_start < overlap_end
is_overlap_le(overlap_start, overlap_end) == overlap_start <= overlap_end
is_overlap(overlap_start, overlap_end) == overlap_start < overlap_end

\* for i in range(len(speaker_info) - 1): ... overlap_tuple.append(...)
RECURSIVE overlap_tuple_from(_, _)
overlap_tuple_from(speaker_info, i) ==
    IF i > Len(speaker_info) - 1 THEN <<>>
    ELSE LET j == i + 1
             start_i == speaker_info[i][1]
             start_j == speaker_info[j][1]
             end_i == start_i + speaker_info[i][2]
             end_j == start_j + speaker_info[j][2]
             overlap_start == Max(start_i, start_j)
             overlap_end == Min(end_i, end_j)
         IN  (IF is_overlap(overlap_start, overlap_end)
              THEN << <<overlap_start, overlap_end>> >> ELSE <<>>)
             \o overlap_tuple_from(speaker_info, j)

\* if start <= last_end: end - last_end, else: end - start
attributed_lt(start, end, last_end) ==
    IF start < last_end THEN end - last_end ELSE end - start
attributed(start, end, last_end) ==
    IF start <= last_end THEN end - last_end ELSE end - start

\* for start, end in overlap_tuple: ...; last_end = end
RECURSIVE accumulate(_, _, _, _)
accumulate(overlap_tuple, k, last_end, overlaps) ==
    IF k > Len(overlap_tuple) THEN [last_end |-> last_end, overlaps |-> overlaps]
    ELSE accumulate(overlap_tuple, k + 1, overlap_tuple[k][2],
                    Append(overlaps, attributed(overlap_tuple[k][1], overlap_tuple[k][2], last_end)))

RECURSIVE sum(_)
sum(xs) == IF xs = <<>> THEN 0 ELSE xs[1] + sum(Tail(xs))

\* total_overlap_duration / last_end if overlaps != [] else 0.0
relative_overlap_unguarded(total, last_end, overlaps) ==
    IF last_end = 0 THEN [err |-> "ZeroDivisionError", val |-> <<0, 1>>]
    ELSE [err |-> "none", val |-> <<total, last_end>>]
relative_overlap(total, last_end, overlaps) ==
    IF overlaps # <<>>
    THEN (IF last_end = 0 THEN [err |-> "ZeroDivisionError", val |-> <<0, 1>>]
          ELSE [err |-> "none", val |-> <<total, last_end>>])
    ELSE [err |-> "none", val |-> <<0, 1>>]

\* The two loops and the return statement, on the parsed speaker_info
overlap_of(speaker_info) ==
    CHOOSE r \in
      { LET total == sum(acc.overlaps)
            rel == relative_overlap(total, acc.last_end, acc.overlaps)
        IN  IF rel.err # "none" THEN [err |-> rel.err]
            ELSE [err |-> "none", total |-> total, relative |-> rel.val,
                  last_end |-> acc.last_end]
        : acc \in {accumulate(overlap_tuple_from(speaker_info, 1), 1, 0, <<>>)} } : TRUE

\* calculate_overlap_duration on the file whose lines are `lines`
calculate_overlap_duration(lines) ==
    CHOOSE r \in
      { IF p.err # "none" THEN [err |-> p.err] ELSE overlap_of(p.speaker_info)
        : p \in {parse_rttm_file(lines)} } : TRUE

(***************************************************************************)
(* Filler words.  The tagger is an external component: what it returns is  *)
(* an input of the model (intj_amount).                                    *)
(***************************************************************************)
\* number_of_words = len(lines.split()); return intj_amount, intj_amount / number_of_words
calculate_filler_word_amount(lines, intj_amount) ==
    LET number_of_words == Len(str_split(lines))
    IN  IF number_of_words = 0 THEN [err |-> "ZeroDivisionError"]
        ELSE [err |-> "none", total |-> intj_amount,
              relative |-> <<intj_amount, number_of_words>>]

(***************************************************************************)
(* The core operations applied to drawn inputs: a segment sequence is         *)
(* handed to the merger as a list of [start, end, label] and to the        *)
(* analyzer as the RTTM file that holds it; a text is handed to the        *)
(* filler-word count.                                                      *)
(***************************************************************************)
Spans == {sp \in Times \X Times : sp[1] <= sp[2]}

\* Adjacent records carry different labels, so that the label a merged record
\* keeps is observable.
LabelAt(i) == IF i % 2 = 1 THEN <<"A">> ELSE <<"B">>

\* segs is one of the drawn segment sequences: at most MaxLen records, each
\* with start <= end.
DrawnSegs(s) ==
    \E n \in 0..MaxLen : \E f \in [1..n -> Spans] :
        s = [i \in 1..n |-> <<f[i][1], f[i][2], LabelAt(i)>>]

StrChars == {"a", " "}
Strs == UNION {[1..n -> StrChars] : n \in 0..MaxStrLen}

CoreFileId == <<"a">>
rttm_file_of(file_id, s) == [i \in 1..Len(s) |-> list_to_rttm_string(file_id, s[i])]

InitMerge ==
    /\ routine = "merge"
    /\ DrawnSegs(segs)
    /\ threshold \in Thresholds
    /\ merge = [pc |-> "start"]
    /\ overlap = Idle /\ filler = Idle /\ codec = Idle /\ convert = Idle /\ batch = Idle

\* The RTTM file of the run holds the records of segs, one line each.
InitOverlap ==
    /\ routine = "overlap_calc"
    /\ DrawnSegs(segs)
    /\ threshold = DefaultThreshold
    /\ overlap = [pc |-> "start"]
    /\ merge = Idle /\ filler = Idle /\ codec = Idle /\ convert = Idle /\ batch = Idle

InitFiller ==
    /\ routine = "filler_word_calc"
    /\ segs = <<>>
    /\ threshold = DefaultThreshold
    /\ filler \in {[pc |-> "start", lines |-> t] : t \in Strs}
    /\ merge = Idle /\ overlap = Idle /\ codec = Idle /\ convert = Idle /\ batch = Idle

\* result = merge_close_numbers(segs, threshold)
MergeCall ==
    /\ merge.pc = "start"
    /\ \E r \in {merge_close_numbers(segs, threshold)} :
           merge' = [pc |-> IF r.err = "none" THEN "returned" ELSE "raised",
                     err |-> r.err, l |-> r.l, out |-> r.out]
    /\ UNCHANGED <<routine, segs, threshold, overlap, filler, codec, convert, batch>>

\* merge_close_numbers(result, threshold): the merger applied to its own output
MergeAgain ==
    /\ merge.pc = "returned"
    /\ \E r \in {merge_close_numbers(merge.out, threshold)} :
           merge' = [merge EXCEPT !.pc = "remerged"] @@ [again |-> r.out, again_err |-> r.err]
    /\ UNCHANGED <<routine, segs, threshold, overlap, filler, codec, convert, batch>>

\* calculate_overlap_duration(rttm_file_path)
OverlapCall ==
    /\ overlap.pc = "start"
    /\ \E r \in {calculate_overlap_duration(rttm_file_of(CoreFileId, segs))} :
           overlap' = [pc |-> IF r.err = "none" THEN "returned" ELSE "raised"] @@ r
    /\ UNCHANGED <<routine, segs, threshold, merge, filler, codec, convert, batch>>

\* calculate_filler_word_amount(txt_file_path); the tagger marks some of the
\* words as interjections.
FillerCall ==
    /\ filler.pc = "start"
    /\ \E intj_amount \in 0..Len(str_split(filler.lines)) :
       \E r \in {calculate_filler_word_amount(filler.lines, intj_amount)} :
           filler' = [pc |-> IF r.err = "none" THEN "returned" ELSE "raised",
                        lines |-> filler.lines] @@ r
    /\ UNCHANGED <<routine, segs, threshold, merge, overlap, codec, convert, batch>>

InitCore == InitMerge \/ InitOverlap \/ InitFiller
NextCore == MergeCall \/ MergeAgain \/ OverlapCall \/ FillerCall
SpecCore == InitCore /\ [][NextCore]_vars

(***************************************************************************)
(* The codec applied to one record: serialize, write, parse, serialize.    *)
(***************************************************************************)
\* start_i, duration_i, _ = speaker_info[i]; end_i = start_i + duration_i
to_segment_record_end_is_duration(info) == <<info[1], info[2], info[3]>>
to_segment_record(info) == <<info[1], info[1] + info[2], info[3]>>

InitCodec ==
    /\ routine = "codec"
    /\ segs = <<>>
    /\ threshold = DefaultThreshold
    /\ \E file_id \in Strs, speaker \in Strs, sp \in Spans :
         codec = [pc |-> "start", file_id |-> file_id, l |-> <<sp[1], sp[2], speaker>>]
    /\ merge = Idle /\ overlap = Idle /\ filler = Idle /\ convert = Idle /\ batch = Idle

\* line = list_to_rttm_string(file_id, l), written as the only line of a file
CodecSerialize ==
    /\ codec.pc = "start"
    /\ codec' = [codec EXCEPT !.pc = "written"]
                @@ [line |-> list_to_rttm_string(codec.file_id, codec.l)]
    /\ UNCHANGED <<routine, segs, threshold, merge, overlap, filler, convert, batch>>

\* parse_rttm_file of that file, and the record (end = start + duration) of its line
CodecParse ==
    /\ codec.pc = "written"
    /\ \E p \in {parse_rttm_file(<<codec.line>>)} :
         codec' = IF p.err # "none"
                  THEN [codec EXCEPT !.pc = "raised"] @@ [err |-> p.err]
                  ELSE [codec EXCEPT !.pc = "parsed"]
                       @@ [record |-> to_segment_record(p.speaker_info[1])]
    /\ UNCHANGED <<routine, segs, threshold, merge, overlap, filler, convert, batch>>

\* list_to_rttm_string(file_id, record)
CodecReserialize ==
    /\ codec.pc = "parsed"
    /\ codec' = [codec EXCEPT !.pc = "done"]
                @@ [line2 |-> list_to_rttm_string(codec.file_id, codec.record)]
    /\ UNCHANGED <<routine, segs, threshold, merge, overlap, filler, convert, batch>>

NextCodec == CodecSerialize \/ CodecParse \/ CodecReserialize
SpecCodec == InitCodec /\ [][NextCodec]_vars

(***************************************************************************)
(* Alignment-to-segment converter.  The table is the list `words` after    *)
(* the header and the empty lines are dropped and each line is split at    *)
(* ', ': rows <<word, start_time, end_time, score, speaker>> with the two  *)
(* times already converted by float().                                     *)
(***************************************************************************)
\* for w in words: ... result[speaker].append / result[speaker] = [...]
\* A dict keeps its keys in insertion order: keys, and the list of each key.
RECURSIVE group_from(_, _, _)
group_from(words, k, result) ==
    IF k > Len(words) THEN result
    ELSE LET speaker == words[k][5]
             item == <<words[k][2], words[k][3], speaker>>
         IN  IF speaker \in DOMAIN result.lists
             THEN group_from(words, k + 1,
                             [result EXCEPT !.lists[speaker] = Append(@, item)])
             ELSE group_from(words, k + 1,
                             [keys |-> Append(result.keys, speaker),
                              lists |-> result.lists @@ (speaker :> <<item>>)])

\* for speaker in result.keys(): result[speaker] = merge_close_numbers(result[speaker])
merge_groups(result) ==
    [result EXCEPT !.lists = [speaker \in DOMAIN result.lists |->
                                 merge_close_numbers(result.lists[speaker], DefaultThreshold).out]]

\* [item for sublist in list(result.values()) for item in sublist]
RECURSIVE flatten_from(_, _)
flatten_from(result, k) ==
    IF k > Len(result.keys) THEN <<>>
    ELSE result.lists[result.keys[k]] \o flatten_from(result, k + 1)

\* sorted(result, key=lambda r: r[0]) is stable: a record goes behind every
\* record whose key is not greater.
goes_behind_strict(r, x) == x[1] < r[1]
goes_behind(r, x) == x[1] <= r[1]

RECURSIVE insert_by_start(_, _)
insert_by_start(done, r) ==
    IF done = <<>> THEN <<r>>
    ELSE IF goes_behind(r, done[Len(done)]) THEN Append(done, r)
    ELSE Append(insert_by_start(SubSeq(done, 1, Len(done) - 1), r), done[Len(done)])

RECURSIVE sorted_from(_, _, _)
sorted_from(xs, k, done) ==
    IF k > Len(xs) THEN done ELSE sorted_from(xs, k + 1, insert_by_start(done, xs[k]))

sorted_by_start(xs) == sorted_from(xs, 1, <<>>)

\* convert_csv_to_rttm on the table `words`, for the file id of the csv's name:
\* the sorted records and the lines written to the rttm file.
convert_csv_to_rttm(file_id, words) ==
    CHOOSE r \in
      { [result |-> result, rttm_str |-> rttm_file_of(file_id, result)]
        : result \in {sorted_by_start(flatten_from(
              merge_groups(group_from(words, 1, [keys |-> <<>>, lists |-> <<>>])), 1))} } : TRUE

RowTimes == {25 * k : k \in 0..MaxRowTick}
RowSpans == {sp \in RowTimes \X RowTimes : sp[1] <= sp[2]}
Speakers == {<<"A">>, <<"B">>}
Row(sp, speaker) == << <<"w">>, sp[1], sp[2], 90, speaker >>

InitConvert ==
    /\ routine = "csv_to_rttm"
    /\ segs = <<>>
    /\ threshold = DefaultThreshold
    /\ \E n \in 0..MaxRows : \E f \in [1..n -> RowSpans \X Speakers] :
         convert = [pc |-> "start", file_id |-> CoreFileId,
                    words |-> [i \in 1..n |-> Row(f[i][1], f[i][2])]]
    /\ merge = Idle /\ overlap = Idle /\ filler = Idle /\ codec = Idle /\ batch = Idle

ConvertCall ==
    /\ convert.pc = "start"
    /\ \E r \in {convert_csv_to_rttm(convert.file_id, convert.words)} :
         convert' = [convert EXCEPT !.pc = "done"] @@ r
    /\ UNCHANGED <<routine, segs, threshold, merge, overlap, filler, codec, batch>>

NextConvert == ConvertCall
SpecConvert == InitConvert /\ [][NextConvert]_vars

(***************************************************************************)
(* Batch drivers.  A directory is the list of its entries in os.listdir    *)
(* order: for the overlap driver the .rttm files of rttm_path, for the     *)
(* evaluation driver the .rttm files of reference_path, each with the      *)
(* same-named hypothesis file (if there is one) and whether the same-named *)
(* audio file exists.  No exception is caught anywhere in the drivers or   *)
(* in main.py: one raised inside the loop ends the run.                    *)
(***************************************************************************)
\* count_speaker_from_rttm on a file whose non-empty lines are `lines`
count_speaker_from_rttm(lines) ==
    CHOOSE r \in
      { IF \E i \in 1..Len(parts) : Len(parts[i]) < 8
        THEN [err |-> "IndexError", n |-> 0]
        ELSE [err |-> "none", n |-> Cardinality({parts[i][8] : i \in 1..Len(parts)})]
        : parts \in {[i \in 1..Len(lines) |-> str_split_sep(lines[i])]} } : TRUE

\* compare_speaker_amount_of_two_files: speakers_a, speakers_b, speakers_b / speakers_a
compare_speaker_amount_of_two_files(lines_a, lines_b) ==
    CHOOSE r \in
      { IF ab[1].err # "none" THEN [err |-> ab[1].err]
        ELSE IF ab[2].err # "none" THEN [err |-> ab[2].err]
        ELSE IF ab[1].n = 0 THEN [err |-> "ZeroDivisionError"]
        ELSE [err |-> "none", speakers_a |-> ab[1].n, speakers_b |-> ab[2].n,
              relative |-> <<ab[2].n, ab[1].n>>]
        : ab \in {<<count_speaker_from_rttm(lines_a), count_speaker_from_rttm(lines_b)>>} } : TRUE

\* diarization_error delegates to the external metric, whose numbers are not
\* modelled; load_rttm(...).popitem() raises KeyError on a file without records.
diarization_error(reference, hypothesis) ==
    IF reference = <<>> \/ hypothesis = <<>> THEN [err |-> "KeyError"]
    ELSE [err |-> "none"]

\* The body of evaluate_all_files_diarization's if-statement for one file
evaluate_one(file_id, reference, hypothesis) ==
    CHOOSE r \in
      { IF c.err # "none" THEN [err |-> c.err]
        ELSE IF diarization_error(reference, hypothesis).err # "none"
             THEN [err |-> diarization_error(reference, hypothesis).err]
        ELSE [err |-> "none",
              row |-> [file |-> file_id, speakers_ref |-> c.speakers_a,
                       speakers_hyp |-> c.speakers_b, relative |-> c.relative]]
        : c \in {compare_speaker_amount_of_two_files(reference, hypothesis)} } : TRUE

\* Names of the listed files: they end with '.rttm'; a name may hold further dots
rttm_format == <<".", "r", "t", "t", "m">>
audio_format == <<".", "w", "a", "v">>
FileName(i) == <<"f", DigitChar(i)>> \o rttm_format
DottedFileName(i) == <<"f", DigitChar(i), ".", "x">> \o rttm_format
NameOf(i, dotted) == IF dotted THEN DottedFileName(i) ELSE FileName(i)

\* The name without its last extension
stem_of(file) ==
    IF \E i \in 1..Len(file) : file[i] = "."
    THEN SubSeq(file, 1, (CHOOSE i \in 1..Len(file) :
                             file[i] = "." /\ \A j \in (i + 1)..Len(file) : file[j] # ".") - 1)
    ELSE file

\* file.split('.')[0]
file_id_of(file) ==
    IF \E i \in 1..Len(file) : file[i] = "."
    THEN SubSeq(file, 1, (CHOOSE i \in 1..Len(file) :
                             file[i] = "." /\ \A j \in 1..(i - 1) : file[j] # ".") - 1)
    ELSE file

\* What a file of the directory may hold
OneRecord == rttm_file_of(CoreFileId, << <<0, 50, <<"A">> >> >>)
TwoRecords == rttm_file_of(CoreFileId, << <<0, 50, <<"A">> >>, <<25, 75, <<"B">> >> >>)
Malformed == << SPEAKER \o SP \o CoreFileId >>
RttmContents == {OneRecord, TwoRecords, Malformed, <<>>}
HypContents == {OneRecord, Malformed, <<>>}

NoHypothesis == [hyp_present |-> FALSE, hyp |-> <<>>, audio_files |-> {}]

\* The audio files a reference file may come with: none, the one named after the
\* reference file, or the one named after the part before the file's first dot
AudioFilesFor(name, which) ==
    CASE which = "none" -> {}
      [] which = "stem" -> {stem_of(name) \o audio_format}
      [] which = "file_id" -> {file_id_of(name) \o audio_format}

\* What distinguishes one entry of a directory from another, its position aside
OverlapEntries == [dotted : BOOLEAN, lines : RttmContents]
EvaluateEntries ==
    { e \in [dotted : BOOLEAN, lines : RttmContents, hyp_present : BOOLEAN,
              hyp : HypContents, audio : {"none", "stem", "file_id"}] :
        /\ ~e.hyp_present => e.hyp = <<>>
        /\ ~e.dotted => e.audio # "file_id" }

\* The names of the files of audio_path
audio_dir(dir) == UNION {dir[i].audio_files : i \in 1..Len(dir)}

InitOverlapBatch ==
    /\ routine = "overlap_calc_all"
    /\ \E n \in 0..MaxFiles : \E e \in [1..n -> OverlapEntries] :
         batch = [pc |-> "start",
                  dir |-> [i \in 1..n |-> [name |-> NameOf(i, e[i].dotted),
                                           lines |-> e[i].lines] @@ NoHypothesis]]

InitEvaluateBatch ==
    /\ routine = "evaluate"
    /\ \E n \in 0..MaxFiles : \E e \in [1..n -> EvaluateEntries] :
         batch = [pc |-> "start",
                  dir |-> [i \in 1..n |->
                             [name |-> NameOf(i, e[i].dotted), lines |-> e[i].lines,
                              hyp_present |-> e[i].hyp_present, hyp |-> e[i].hyp,
                              audio_files |-> AudioFilesFor(NameOf(i, e[i].dotted), e[i].audio)]]]

InitBatch ==
    /\ segs = <<>>
    /\ threshold = DefaultThreshold
    /\ merge = Idle /\ overlap = Idle /\ filler = Idle /\ codec = Idle /\ convert = Idle
    /\ (InitOverlapBatch \/ InitEvaluateBatch)

\* with open(result_file, 'w') as fp: fp.write(header); files = [f for f in os.listdir(...)]
BatchWriteHeader ==
    /\ batch.pc = "start"
    /\ batch' = [batch EXCEPT !.pc = "loop"]
                @@ [files |-> [i \in 1..Len(batch.dir) |-> batch.dir[i].name],
                    i |-> 1, result_file |-> <<[header |-> routine]>>]
    /\ UNCHANGED <<routine, segs, threshold, merge, overlap, filler, codec, convert>>

\* One iteration of overlap_duration_all_files' loop
OverlapNextFile ==
    /\ routine = "overlap_calc_all"
    /\ batch.pc = "loop" /\ batch.i <= Len(batch.files)
    /\ \E r \in {calculate_overlap_duration(batch.dir[batch.i].lines)} :
         batch' = IF r.err # "none"
                  THEN [batch EXCEPT !.pc = "raised"] @@ [err |-> r.err]
                  ELSE [batch EXCEPT !.i = @ + 1,
                                     !.result_file = Append(@, [file |-> batch.files[batch.i],
                                                                total |-> r.total,
                                                                relative |-> r.relative])]
    /\ UNCHANGED <<routine, segs, threshold, merge, overlap, filler, codec, convert>>

\* One iteration of evaluate_all_files_diarization's loop
EvaluateNextFile ==
    /\ routine = "evaluate"
    /\ batch.pc = "loop" /\ batch.i <= Len(batch.files)
    /\ \E d \in {batch.dir[batch.i]} :
         IF d.hyp_present /\ (file_id_of(d.name) \o audio_format) \in audio_dir(batch.dir)
         THEN \E r \in {evaluate_one(file_id_of(d.name), d.lines, d.hyp)} :
                batch' = IF r.err # "none"
                         THEN [batch EXCEPT !.pc = "raised"] @@ [err |-> r.err]
                         ELSE [batch EXCEPT !.i = @ + 1, !.result_file = Append(@, r.row)]
         ELSE batch' = [batch EXCEPT !.i = @ + 1]
    /\ UNCHANGED <<routine, segs, threshold, merge, overlap, filler, codec, convert>>

\* The loop is exhausted and the driver returns
BatchReturn ==
    /\ batch.pc = "loop" /\ batch.i > Len(batch.files)
    /\ batch' = [batch EXCEPT !.pc = "done"]
    /\ UNCHANGED <<routine, segs, threshold, merge, overlap, filler, codec, convert>>

NextBatch == BatchWriteHeader \/ OverlapNextFile \/ EvaluateNextFile \/ BatchReturn
SpecBatch == InitBatch /\ [][NextBatch]_vars

(***************************************************************************)
(* Diarization driver.  audio_path is a path string, the directory it      *)
(* names holds a set of regular files, and diarize (the external pipeline) *)
(* is recorded as a call.                                                  *)
(***************************************************************************)
\* str.endswith
endswith(s, suffix) ==
    /\ Len(suffix) <= Len(s)
    /\ SubSeq(s, Len(s) - Len(suffix) + 1, Len(s)) = suffix

\* [f for f in audio_path if os.path.isfile(os.path.join(audio_path, f)) and
\*  f.endswith(audio_format)]: f runs over the characters of the string audio_path
RECURSIVE wav_files_from(_, _, _, _)
wav_files_from(audio_path, i, files, fmt) ==
    IF i > Len(audio_path) THEN <<>>
    ELSE IF <<audio_path[i]>> \in files /\ endswith(<<audio_path[i]>>, fmt)
         THEN <<(<<audio_path[i]>>)>> \o wav_files_from(audio_path, i + 1, files, fmt)
         ELSE wav_files_from(audio_path, i + 1, files, fmt)

wav_files_of(audio_path, files, fmt) == wav_files_from(audio_path, 1, files, fmt)

\* wav_file.split('.')[0] + '.rttm'
rttm_file_of_wav(wav_file) == file_id_of(wav_file) \o rttm_format

\* num_speakers of one iteration: None, or count_speaker_from_rttm of the reference
num_speakers_for(rttm_file, consider_speakers, reference_files, reference_lines) ==
    IF ~consider_speakers THEN [err |-> "none", given |-> FALSE, n |-> 0]
    ELSE IF rttm_file \notin reference_files
         THEN [err |-> "FileNotFoundError", given |-> FALSE, n |-> 0]
    ELSE [err |-> count_speaker_from_rttm(reference_lines).err, given |-> TRUE,
          n |-> count_speaker_from_rttm(reference_lines).n]

PathChars == {"a", "d"}
AudioPaths == UNION {[1..n -> PathChars] : n \in 1..MaxPathLen}
AudioFileNames == {<<"a">>, <<"a">> \o audio_format, <<"d">> \o audio_format}
AudioFormats == {audio_format, <<"a">>, <<>>}
ReferenceFileNames == {<<"a">> \o rttm_format, <<"d">> \o rttm_format}

InitDiarize ==
    /\ routine = "diarize"
    /\ segs = <<>>
    /\ threshold = DefaultThreshold
    /\ merge = Idle /\ overlap = Idle /\ filler = Idle /\ codec = Idle /\ convert = Idle
    /\ \E p \in AudioPaths, fs \in SUBSET AudioFileNames, fmt \in AudioFormats,
          cs \in BOOLEAN, rs \in SUBSET ReferenceFileNames,
          rl \in {OneRecord, TwoRecords} :
         batch = [pc |-> "start", audio_path |-> p, audio_files |-> fs,
                  audio_format |-> fmt, consider_speakers |-> cs,
                  reference_files |-> rs, reference_lines |-> rl]

\* wav_files = [...]
DiarizeListFiles ==
    /\ routine = "diarize" /\ batch.pc = "start"
    /\ batch' = [batch EXCEPT !.pc = "loop"]
                @@ [wav_files |-> wav_files_of(batch.audio_path, batch.audio_files,
                                               batch.audio_format),
                    i |-> 1, calls |-> <<>>]
    /\ UNCHANGED <<routine, segs, threshold, merge, overlap, filler, codec, convert>>

\* One iteration of diarize_all_files' loop
DiarizeNextFile ==
    /\ routine = "diarize" /\ batch.pc = "loop" /\ batch.i <= Len(batch.wav_files)
    /\ \E wav_file \in {batch.wav_files[batch.i]} :
       \E ns \in {num_speakers_for(rttm_file_of_wav(wav_file), batch.consider_speakers,
                                   batch.reference_files, batch.reference_lines)} :
         batch' = IF ns.err # "none"
                  THEN [batch EXCEPT !.pc = "raised"] @@ [err |-> ns.err]
                  ELSE [batch EXCEPT !.i = @ + 1,
                          !.calls = Append(@, [audio_file |-> <<batch.audio_path, wav_file>>,
                                               result_file |-> rttm_file_of_wav(wav_file),
                                               num_speakers |-> [given |-> ns.given, n |-> ns.n]])]
    /\ UNCHANGED <<routine, segs, threshold, merge, overlap, filler, codec, convert>>

\* The loop is exhausted and the driver returns
DiarizeReturn ==
    /\ routine = "diarize" /\ batch.pc = "loop" /\ batch.i > Len(batch.wav_files)
    /\ batch' = [batch EXCEPT !.pc = "done"]
    /\ UNCHANGED <<routine, segs, threshold, merge, overlap, filler, codec, convert>>

NextDiarize == DiarizeListFiles \/ DiarizeNextFile \/ DiarizeReturn
SpecDiarize == InitDiarize /\ [][NextDiarize]_vars

(***************************************************************************)
(* Properties of the merger.                                               *)
(***************************************************************************)
KthSmallest(S, k) == CHOOSE x \in S : Cardinality({y \in S : y < x}) = k - 1

OrderedByStart(s) == \A i \in 1..Len(s) - 1 : s[i][1] <= s[i + 1][1]

\* The positions that open a run: the first, and every record whose start is at
\* least th after the end of the record before it.
RunStarts(s, th) == {1} \cup {i \in 2..Len(s) : s[i][1] - s[i - 1][2] >= th}

\* The chained merge, run by run: a run keeps the start and label of its first
\* record and takes the end of its last.
GreedyChain(s, th) ==
    LET B == RunStarts(s, th)
        n == Cardinality(B)
    IN  [j \in 1..n |->
            LET b == KthSmallest(B, j)
                e == IF j = n THEN Len(s) ELSE KthSmallest(B, j + 1) - 1
            IN  <<s[b][1], s[e][2], s[b][3]>>]

MergeReturned == merge.pc \in {"returned", "remerged"}

\* C1: for every non-empty sequence and threshold, merge_close_numbers returns the
\* greedy chained merge: a record whose start is less than threshold after the
\* end of the last output record is absorbed into it (end overwritten, start and
\* label kept), any other record (a gap equal to the threshold included) opens a
\* new output record unchanged.  Stated for every drawn sequence, the
\* start-ordered ones included.
C1_MergeIsGreedyChain ==
    (routine = "merge" /\ segs # <<>> /\ merge.pc # "start")
        => (MergeReturned /\ merge.out = GreedyChain(segs, threshold))

\* C1 witness: three start-ordered records, the second absorbed over a positive
\* gap below the threshold, the third kept apart by a gap equal to the threshold.
C1_Witness ==
    /\ MergeReturned /\ OrderedByStart(segs) /\ Len(segs) = 3
    /\ segs[2][1] - segs[1][2] > 0 /\ segs[2][1] - segs[1][2] < threshold
    /\ segs[3][1] - segs[2][2] = threshold
    /\ merge.out = << <<segs[1][1], segs[2][2], segs[1][3]>>, segs[3] >>

SetMax(S) == CHOOSE x \in S : \A y \in S : y <= x
SetMin(S) == CHOOSE x \in S : \A y \in S : x <= y
TotalSpan(s) == SetMax({s[i][2] : i \in 1..Len(s)}) - SetMin({s[i][1] : i \in 1..Len(s)})

\* C2: for every non-empty sequence of records with start <= end, ordered by
\* start, the output of merge_close_numbers has the total span
\* max(end) - min(start) of the input and no more records than the input.
C2_MergeMonotone ==
    (MergeReturned /\ segs # <<>> /\ OrderedByStart(segs))
        => (TotalSpan(merge.out) = TotalSpan(segs) /\ Len(merge.out) <= Len(segs))

\* C3: merging the output of merge_close_numbers again with the same threshold
\* returns a sequence identical to that output.
C3_MergeIdempotent ==
    merge.pc = "remerged" => (merge.again_err = "none" /\ merge.again = merge.out)

\* C3 witness: a second merge of an output that has several records, one of
\* them the result of an absorption.
C3_Witness ==
    /\ merge.pc = "remerged"
    /\ Len(merge.out) >= 2 /\ Len(merge.out) < Len(segs)
    /\ merge.again = merge.out

(***************************************************************************)
(* Properties of the overlap analyzer.                                     *)
(***************************************************************************)
OvStart(s, i) == Max(s[i][1], s[i + 1][1])
OvEnd(s, i) == Min(s[i][2], s[i + 1][2])

\* The consecutive pairs (i, i + 1) whose common interval is not empty
Qualifying(s) == {i \in 1..Len(s) - 1 : OvStart(s, i) < OvEnd(s, i)}

\* What the k-th qualifying interval adds: last_end is 0 before the first and
\* the end of the interval before it afterwards.
Contribution(s, k) ==
    LET q == KthSmallest(Qualifying(s), k)
        before == IF k = 1 THEN 0 ELSE OvEnd(s, KthSmallest(Qualifying(s), k - 1))
    IN  IF OvStart(s, q) <= before THEN OvEnd(s, q) - before
        ELSE OvEnd(s, q) - OvStart(s, q)

RECURSIVE ContributionsTo(_, _)
ContributionsTo(s, k) == IF k = 0 THEN 0 ELSE ContributionsTo(s, k - 1) + Contribution(s, k)

ExpectedTotal(s) == ContributionsTo(s, Cardinality(Qualifying(s)))
ExpectedRelative(s) ==
    LET m == Cardinality(Qualifying(s))
    IN  IF m = 0 THEN <<0, 1>>
        ELSE <<ExpectedTotal(s), OvEnd(s, KthSmallest(Qualifying(s), m))>>

OverlapEnded == overlap.pc \in {"returned", "raised"}

\* C4: calculate_overlap_duration returns the accounting over the consecutive
\* pairs only: an interval [max(starts), min(ends)] counts when its start is
\* strictly below its end; it adds e - last_end when s <= last_end and e - s
\* otherwise, last_end being 0 at first and then the end of the interval before;
\* relative is total / (end of the last counted interval), or 0 when none counted.
C4_OverlapAccounting ==
    OverlapEnded
        => /\ overlap.pc = "returned"
           /\ overlap.total = ExpectedTotal(segs)
           /\ overlap.relative = ExpectedRelative(segs)

\* C4 witness: a first counted interval that opens a run after time 0 and a
\* second one that continues it (s <= last_end) and extends it.
C4_Witness ==
    /\ overlap.pc = "returned" /\ Len(segs) = 3
    /\ Qualifying(segs) = {1, 2}
    /\ OvStart(segs, 1) > 0
    /\ OvStart(segs, 2) <= OvEnd(segs, 1) /\ OvEnd(segs, 2) > OvEnd(segs, 1)
    /\ overlap.total = OvEnd(segs, 2) - OvStart(segs, 1)
    /\ overlap.relative = <<overlap.total, OvEnd(segs, 2)>>

\* C5: for every file of records with start >= 0 and duration >= 0, in the
\* order of the file, the total overlap returned is >= 0, and the relative
\* overlap lies in [0, 1] whenever last_end > 0.
C5_OverlapNonNegative ==
    overlap.pc = "returned"
        => /\ overlap.total >= 0
           /\ overlap.last_end > 0
                => (0 <= overlap.relative[1] /\ overlap.relative[1] <= overlap.relative[2])

(***************************************************************************)
(* Empty input and zero denominators.                                      *)
(***************************************************************************)
\* C6 as stated: on an empty segment sequence neither the merger nor the
\* analyzer returns a normal result.
C6_EmptyInputIsAnError ==
    segs = <<>> => (~MergeReturned /\ overlap.pc # "returned")

\* C6 amended: on an empty segment sequence the merger ends in an error that
\* reaches the caller, and the analyzer returns total 0 and relative 0.
C6_EmptyInputOutcome ==
    segs = <<>>
        => /\ (routine = "merge" /\ merge.pc # "start")
                => (merge.pc = "raised" /\ merge.err = "IndexError")
           /\ (routine = "overlap_calc" /\ overlap.pc # "start")
                => (overlap.pc = "returned" /\ overlap.total = 0 /\ overlap.relative = <<0, 1>>)

\* C6 witness: the analyzer has been invoked on the file of the empty sequence
\* and has returned.
C6_Witness ==
    /\ routine = "overlap_calc" /\ segs = <<>>
    /\ overlap.pc = "returned" /\ overlap.total = 0

\* C7: with no overlapping consecutive pair the analyzer returns total 0 and
\* relative 0, and with a text of zero words the filler-word count returns a
\* relative amount of 0; no division by zero reaches the caller.
C7_ZeroDenominatorGuarded ==
    /\ (OverlapEnded /\ Qualifying(segs) = {})
         => (overlap.pc = "returned" /\ overlap.total = 0 /\ overlap.relative = <<0, 1>>)
    /\ (filler.pc \in {"returned", "raised"} /\ str_split(filler.lines) = <<>>)
         => (filler.pc = "returned" /\ filler.relative = <<0, 1>>)

(***************************************************************************)
(* Properties of the converter.                                            *)
(***************************************************************************)
RowSpeakers(words) == {words[i][5] : i \in 1..Len(words)}
FirstRow(words, speaker) == SetMin({i \in 1..Len(words) : words[i][5] = speaker})

\* The rows of one speaker, in row order, as [start, end, speaker]
GroupOf(words, speaker) ==
    LET rows == {i \in 1..Len(words) : words[i][5] = speaker}
    IN  [j \in 1..Cardinality(rows) |->
            LET w == words[KthSmallest(rows, j)] IN <<w[2], w[3], w[5]>>]

\* The merged groups one after the other, a speaker's group standing where the
\* speaker first appears in the table.
RECURSIVE FlattenedFrom(_, _)
FlattenedFrom(words, left) ==
    IF left = {} THEN <<>>
    ELSE LET speaker == CHOOSE x \in left :
                            \A y \in left : FirstRow(words, x) <= FirstRow(words, y)
         IN  GreedyChain(GroupOf(words, speaker), DefaultThreshold)
             \o FlattenedFrom(words, left \ {speaker})

Flattened(words) == FlattenedFrom(words, RowSpeakers(words))

\* Where a stable sort by start puts element k of F: behind every element of a
\* smaller start and every earlier element of the same start.
StableRank(F, k) ==
    1 + Cardinality({m \in 1..Len(F) : F[m][1] < F[k][1]})
      + Cardinality({m \in 1..k - 1 : F[m][1] = F[k][1]})

StablySorted(F) == [i \in 1..Len(F) |-> F[CHOOSE k \in 1..Len(F) : StableRank(F, k) = i]]

\* C8: convert_csv_to_rttm emits exactly the records obtained by grouping the
\* rows by speaker (row order kept), merging each group with threshold 0.5,
\* concatenating the groups and sorting stably by start: one line per record,
\* starts non-decreasing, equal starts in flattened order, each record with
\* the label of its group.
C8_ConvertEmitsSortedMergedGroups ==
    convert.pc = "done"
        => /\ convert.result = StablySorted(Flattened(convert.words))
           /\ \A i \in 1..Len(convert.result) - 1 :
                  convert.result[i][1] <= convert.result[i + 1][1]
           /\ Len(convert.rttm_str) = Len(convert.result)
           /\ \A i \in 1..Len(convert.result) :
                  convert.rttm_str[i] = list_to_rttm_string(convert.file_id, convert.result[i])

\* C8 witness: two speakers, a group whose two rows were merged into one
\* record, and a sort that moved the second speaker's record to the front.
C8_Witness ==
    /\ convert.pc = "done" /\ Len(convert.words) = 3
    /\ Cardinality(RowSpeakers(convert.words)) = 2
    /\ Len(convert.result) = 2
    /\ convert.result # Flattened(convert.words)
    /\ convert.result[1][3] # convert.words[1][5]
    /\ convert.result[1][1] < convert.result[1][2]
    /\ convert.result[1][2] < convert.result[2][1]
    /\ convert.result[2][1] <= convert.result[2][2]

(***************************************************************************)
(* Properties of the codec.                                                *)
(***************************************************************************)
CodecEnded == codec.pc \in {"raised", "done"}

Clean(str) == str # <<>> /\ \A i \in 1..Len(str) : str[i] # " "

BatchEnded == batch.pc \in {"done", "raised"}

\* The per-file computation of the running driver succeeds on entry k
CoreSucceeds(k) ==
    IF routine = "overlap_calc_all"
    THEN calculate_overlap_duration(batch.dir[k].lines).err = "none"
    ELSE /\ batch.dir[k].hyp_present
         /\ (file_id_of(batch.dir[k].name) \o audio_format) \in audio_dir(batch.dir)
         /\ evaluate_one(file_id_of(batch.dir[k].name), batch.dir[k].lines, batch.dir[k].hyp).err = "none"

\* The per-file computation of the running driver raises on entry k
CoreFails(k) ==
    IF routine = "overlap_calc_all"
    THEN calculate_overlap_duration(batch.dir[k].lines).err # "none"
    ELSE /\ batch.dir[k].hyp_present
         /\ (file_id_of(batch.dir[k].name) \o audio_format) \in audio_dir(batch.dir)
         /\ evaluate_one(file_id_of(batch.dir[k].name), batch.dir[k].lines, batch.dir[k].hyp).err # "none"

\* The first column of the row written for entry k
RowKey(k) ==
    IF routine = "overlap_calc_all" THEN batch.files[k] ELSE file_id_of(batch.files[k])

HasRow(k) ==
    \E j \in 2..Len(batch.result_file) : batch.result_file[j].file = RowKey(k)

\* C10: when the per-file computation fails for one file, the driver goes on
\* with the next: once the run is over, every later file of the listing that is
\* itself well-formed has its row in the result file.
C10_BatchContinuesAfterFailure ==
    BatchEnded
        => \A k \in 1..Len(batch.files), f \in 1..Len(batch.files) :
               (f < k /\ CoreFails(f) /\ CoreSucceeds(k)) => HasRow(k)

\* A file with at least one record whose every line has the fields of a record
WellFormedFile(lines) ==
    /\ Len(lines) >= 1
    /\ parse_rttm_file(lines).err = "none"
    /\ count_speaker_from_rttm(lines).err = "none"

AllWellFormed ==
    \A k \in 1..Len(batch.dir) :
        /\ WellFormedFile(batch.dir[k].lines)
        /\ batch.dir[k].hyp_present => WellFormedFile(batch.dir[k].hyp)

\* Entry k has a hypothesis file of its name and an audio file of its name
\* (the reference file's name with audio_format in place of '.rttm')
HasSameNamedPair(k) ==
    /\ batch.dir[k].hyp_present
    /\ (stem_of(batch.dir[k].name) \o audio_format) \in audio_dir(batch.dir)

\* First columns of the rows due to the entries 1..k, in listing order
RECURSIVE RowsDue(_)
RowsDue(k) ==
    IF k = 0 THEN <<>>
    ELSE IF HasSameNamedPair(k) THEN Append(RowsDue(k - 1), file_id_of(batch.dir[k].name))
         ELSE RowsDue(k - 1)

\* First columns of the rows of the result file, the header line set aside
RowsWritten == [j \in 1..(Len(batch.result_file) - 1) |-> batch.result_file[j + 1].file]

HeaderOnceAndFirst ==
    /\ Len(batch.result_file) >= 1
    /\ \A j \in 1..Len(batch.result_file) :
           ("header" \in DOMAIN batch.result_file[j]) <=> (j = 1)

\* C11: once evaluate_all_files_diarization is over on directories of well-formed
\* files, the result file is the header line, once and first, followed by one
\* row for each reference file that has a same-named hypothesis file and a
\* same-named audio file, in listing order; the other files have no row.
C11_EvaluateResultFile ==
    (routine = "evaluate" /\ BatchEnded /\ AllWellFormed)
        => /\ batch.pc = "done"
           /\ HeaderOnceAndFirst
           /\ RowsWritten = RowsDue(Len(batch.dir))

(***************************************************************************)
(* Properties of the diarization driver.                                   *)
(***************************************************************************)
\* The calls of diarize made for the file f of the directory audio_path
CallsFor(f) ==
    {j \in 1..Len(batch.calls) : batch.calls[j].audio_file = <<batch.audio_path, f>>}

\* C12: when diarize_all_files has returned, diarize has been applied exactly
\* once to every regular file of the directory audio_path whose name ends with
\* audio_format, with the result written under the same base name with
\* extension .rttm and, when consider_speakers is true, with the distinct-label
\* count of the same-named reference file as the speaker count.
C12_DiarizeEveryAudioFile ==
    (routine = "diarize" /\ batch.pc = "done")
        => \A f \in batch.audio_files :
               endswith(f, batch.audio_format)
                   => /\ Cardinality(CallsFor(f)) = 1
                      /\ \A j \in CallsFor(f) :
                           /\ batch.calls[j].result_file = stem_of(f) \o rttm_format
                           /\ batch.consider_speakers
                                  => /\ batch.calls[j].num_speakers.given
                                     /\ batch.calls[j].num_speakers.n
                                            = count_speaker_from_rttm(batch.reference_lines).n

(***************************************************************************)
(* Properties of the speaker-count comparison.                             *)
(***************************************************************************)
\* The number of distinct labels among the records of a file
DistinctLabels(lines) ==
    Cardinality({parse_rttm_file(lines).speaker_info[i][3] : i \in 1..Len(lines)})

\* Equality of two ratios <<numerator, denominator>>
SameRatio(r, q) == r[1] * q[2] = q[1] * r[2]

\* The entry of the directory the row j of the result file was written for
EntryOfRow(j) ==
    CHOOSE k \in 1..Len(batch.dir) :
        file_id_of(batch.dir[k].name) = batch.result_file[j].file

\* C13: compare_speaker_amount_of_two_files(a, b), as called for every row of the
\* evaluation driver with a = reference and b = hypothesis, returns the
\* distinct-label counts of a and of b and, as the relative difference, the
\* first count divided by the second (speakers_a / speakers_b).
C13_RelativeIsFirstBySecond ==
    (routine = "evaluate" /\ batch.pc # "start")
        => \A j \in 2..Len(batch.result_file) :
               /\ batch.result_file[j].speakers_ref
                      = DistinctLabels(batch.dir[EntryOfRow(j)].lines)
               /\ batch.result_file[j].speakers_hyp
                      = DistinctLabels(batch.dir[EntryOfRow(j)].hyp)
               /\ SameRatio(batch.result_file[j].relative,
                            <<batch.result_file[j].speakers_ref,
                              batch.result_file[j].speakers_hyp>>)

(***************************************************************************)
(* Frame of the merger.                                                    *)
(***************************************************************************)
\* C14: after merge_close_numbers(l, threshold) has returned on a non-empty l,
\* every record of the caller's sequence l has the start, end and label it had
\* before the call.
C14_MergeLeavesInputUnchanged ==
    (routine = "merge" /\ segs # <<>> /\ MergeReturned) => merge.l = segs

=============================================================================
